---- MODULE Spec2Model ----
(***************************************************************************)
(* The CMatrix4x4 utility of IndexBuffer/Utility/CMatrix4x4.h as a client  *)
(* uses it: matrix objects mat, other and out, a vector vec, and the calls *)
(* made on them (operator*, operator*=, SetRow, GetRow, InverseAffine),    *)
(* starting from matrices the factory functions return or that are set     *)
(* element by element; and the scene of IndexBuffer/Scene.cpp that uses    *)
(* it: InitGeometry uploading the cube's vertices and indices, then        *)
(* UpdateScene and RenderScene frame after frame.                          *)
(*                                                                         *)
(* A float is the exact value the computation has: a pair <<n, d>> for n/d *)
(* in lowest terms, with d = 0 for the IEEE special values (<<1, 0>> is    *)
(* +Inf, <<-1, 0>> is -Inf, <<0, 0>> is NaN) and their arithmetic. The     *)
(* rounding of a float operation is not modelled: an equality below is an  *)
(* equality of exact values, which the floats of the code approximate.     *)
(* Nor is the sign of a zero: the one place it shows, 1.0f / det with det  *)
(* a zero, takes the sign as a parameter and both signs are explored.      *)
(***************************************************************************)
EXTENDS Integers, Sequences, FiniteSets, TLC

VARIABLES mat, other, out, vec, hist

\* Scene.cpp: the globals of the scene, the statics of UpdateScene, the
\* position reached in InitGeometry (pc, shaderSignature) and what the device
\* was asked to do (deviceCalls, drawn)
VARIABLES pc, gLastError, gSimpleVertexBuffer, gSimpleIndexBuffer, gSimpleVertexLayout, shaderSignature, deviceCalls

VARIABLES viewMatrix, gCubeMatrix, worldMatrix, rotationX, rotationY, totalFrameTime, frameCount, drawn, frames

matrixVars == <<mat, other, out, vec, hist>>

geometryVars == <<pc, gLastError, gSimpleVertexBuffer, gSimpleIndexBuffer, gSimpleVertexLayout, shaderSignature, deviceCalls>>

frameVars == <<viewMatrix, gCubeMatrix, worldMatrix, rotationX, rotationY, totalFrameTime, frameCount, drawn, frames>>

sceneVars == <<geometryVars, frameVars>>

vars == <<matrixVars, sceneVars>>

(***************************************************************************)
(* float                                                                   *)
(***************************************************************************)
Abs(i) == IF i < 0 THEN -i ELSE i

Sign(i) == IF i < 0 THEN -1 ELSE IF i > 0 THEN 1 ELSE 0

RECURSIVE GCD(_, _)
GCD(a, b) == IF b = 0 THEN a ELSE GCD(b, a % b)

\* n/d in lowest terms; d = 0 keeps only the sign (Inf, -Inf) or 0 (NaN)
Norm(n, d) ==
    IF d = 0 THEN <<Sign(n), 0>>
    ELSE LET g == GCD(Abs(n), d) IN <<n \div g, d \div g>>

\* an integer literal as a float
F(i) == <<i, 1>>

PInf == <<1, 0>>
NInf == <<-1, 0>>
NaN == <<0, 0>>

IsFinite(a) == a[2] # 0

\* a * b : 0 * Inf = NaN, x * Inf = +-Inf, NaN * x = NaN
FMul(a, b) == Norm(a[1] * b[1], a[2] * b[2])

\* a + b : Inf + -Inf = NaN, Inf + x = Inf, NaN + x = NaN
FAdd(a, b) ==
    IF a[2] = 0 /\ b[2] = 0 THEN (IF a = b THEN a ELSE NaN)
    ELSE IF a[2] = 0 THEN a
    ELSE IF b[2] = 0 THEN b
    ELSE LET g == GCD(a[2], b[2])
         IN  Norm(a[1] * (b[2] \div g) + b[1] * (a[2] \div g), a[2] * (b[2] \div g))

\* -a
FNeg(a) == <<-a[1], a[2]>>

\* a - b
FSub(a, b) == FAdd(a, FNeg(b))

\* a / b with a division by zero giving 0 instead of an infinity
FDivZeroGuard(a, b, zs) ==
    LET recip == IF b[2] = 0 THEN (IF b[1] = 0 THEN NaN ELSE F(0))
                 ELSE IF b[1] = 0 THEN F(0)
                 ELSE <<Sign(b[1]) * b[2], Abs(b[1])>>
    IN  FMul(a, recip)

\* a / b ; zs (1 or -1) is the sign of b when b is a zero
FDiv(a, b, zs) ==
    LET recip == IF b[2] = 0 THEN (IF b[1] = 0 THEN NaN ELSE F(0))
                 ELSE IF b[1] = 0 THEN <<zs, 0>>
                 ELSE <<Sign(b[1]) * b[2], Abs(b[1])>>
    IN  FMul(a, recip)

(***************************************************************************)
(* CVector3 and CMatrix4x4 values                                          *)
(***************************************************************************)
CVector3(x, y, z) == [x |-> x, y |-> y, z |-> z]

\* aggregate initialisation CMatrix4x4{ ... } in declaration order
CMatrix4x4(a00, a01, a02, a03, a10, a11, a12, a13, a20, a21, a22, a23, a30, a31, a32, a33) ==
    [e00 |-> a00, e01 |-> a01, e02 |-> a02, e03 |-> a03,
     e10 |-> a10, e11 |-> a11, e12 |-> a12, e13 |-> a13,
     e20 |-> a20, e21 |-> a21, e22 |-> a22, e23 |-> a23,
     e30 |-> a30, e31 |-> a31, e32 |-> a32, e33 |-> a33]

\* the sixteen floats in memory order: &e00 + i is Elts[i + 1]
Elts == <<"e00", "e01", "e02", "e03", "e10", "e11", "e12", "e13",
          "e20", "e21", "e22", "e23", "e30", "e31", "e32", "e33">>

\* the sum with its fourth product left out
MulAdd4NoFourth(x0, y0, x1, y1, x2, y2, x3, y3) ==
    FAdd(FAdd(FMul(x0, y0), FMul(x1, y1)), FMul(x2, y2))

\* x0*y0 + x1*y1 + x2*y2 + x3*y3, summed left to right as the source writes it
MulAdd4(x0, y0, x1, y1, x2, y2, x3, y3) ==
    FAdd(FAdd(FAdd(FMul(x0, y0), FMul(x1, y1)), FMul(x2, y2)), FMul(x3, y3))

(***************************************************************************)
(* CMatrix4x4 member functions                                             *)
(***************************************************************************)
\* SetRow with rows taken to be three floats apart: pfElts = &e00 + iRow * 3
SetRowStride3(this, iRow, v) ==
    [this EXCEPT ![Elts[iRow * 3 + 1]] = v.x,
                 ![Elts[iRow * 3 + 2]] = v.y,
                 ![Elts[iRow * 3 + 3]] = v.z]

\* SetRow: pfElts = &e00 + iRow * 4; pfElts[0..2] = v.x, v.y, v.z
SetRow(this, iRow, v) ==
    [this EXCEPT ![Elts[iRow * 4 + 1]] = v.x,
                 ![Elts[iRow * 4 + 2]] = v.y,
                 ![Elts[iRow * 4 + 3]] = v.z]

\* GetRow: CVector3(pfElts[0], pfElts[1], pfElts[2])
GetRow(this, iRow) ==
    CVector3(this[Elts[iRow * 4 + 1]], this[Elts[iRow * 4 + 2]], this[Elts[iRow * 4 + 3]])

\* operator*= , the four statements updating row 0 of *this from m
MulAssignRow0(this, m) ==
    LET t0 == MulAdd4(this.e00, m.e00, this.e01, m.e10, this.e02, m.e20, this.e03, m.e30)
        t1 == MulAdd4(this.e00, m.e01, this.e01, m.e11, this.e02, m.e21, this.e03, m.e31)
        t2 == MulAdd4(this.e00, m.e02, this.e01, m.e12, this.e02, m.e22, this.e03, m.e32)
        t3 == MulAdd4(this.e00, m.e03, this.e01, m.e13, this.e02, m.e23, this.e03, m.e33)
    IN  [this EXCEPT !.e03 = t3, !.e00 = t0, !.e01 = t1, !.e02 = t2]

\* operator*= , the four statements updating row 1 of *this from m
MulAssignRow1(this, m) ==
    LET t0 == MulAdd4(this.e10, m.e00, this.e11, m.e10, this.e12, m.e20, this.e13, m.e30)
        t1 == MulAdd4(this.e10, m.e01, this.e11, m.e11, this.e12, m.e21, this.e13, m.e31)
        t2 == MulAdd4(this.e10, m.e02, this.e11, m.e12, this.e12, m.e22, this.e13, m.e32)
        t3 == MulAdd4(this.e10, m.e03, this.e11, m.e13, this.e12, m.e23, this.e13, m.e33)
    IN  [this EXCEPT !.e13 = t3, !.e10 = t0, !.e11 = t1, !.e12 = t2]

\* operator*= , the four statements updating row 2 of *this from m
MulAssignRow2(this, m) ==
    LET t0 == MulAdd4(this.e20, m.e00, this.e21, m.e10, this.e22, m.e20, this.e23, m.e30)
        t1 == MulAdd4(this.e20, m.e01, this.e21, m.e11, this.e22, m.e21, this.e23, m.e31)
        t2 == MulAdd4(this.e20, m.e02, this.e21, m.e12, this.e22, m.e22, this.e23, m.e32)
        t3 == MulAdd4(this.e20, m.e03, this.e21, m.e13, this.e22, m.e23, this.e23, m.e33)
    IN  [this EXCEPT !.e23 = t3, !.e20 = t0, !.e21 = t1, !.e22 = t2]

\* operator*= , the four statements updating row 3 of *this from m
MulAssignRow3(this, m) ==
    LET t0 == MulAdd4(this.e30, m.e00, this.e31, m.e10, this.e32, m.e20, this.e33, m.e30)
        t1 == MulAdd4(this.e30, m.e01, this.e31, m.e11, this.e32, m.e21, this.e33, m.e31)
        t2 == MulAdd4(this.e30, m.e02, this.e31, m.e12, this.e32, m.e22, this.e33, m.e32)
        t3 == MulAdd4(this.e30, m.e03, this.e31, m.e13, this.e32, m.e23, this.e33, m.e33)
    IN  [this EXCEPT !.e33 = t3, !.e30 = t0, !.e31 = t1, !.e32 = t2]

\* operator* with the operands taken in the other order: m2 * m1
MultiplySwapped(m1, m2) ==
    MulAssignRow3(MulAssignRow2(MulAssignRow1(MulAssignRow0(m2, m1), m1), m1), m1)

\* operator*( m1, m2 )
Multiply(m1, m2) ==
    CMatrix4x4(
        MulAdd4(m1.e00, m2.e00, m1.e01, m2.e10, m1.e02, m2.e20, m1.e03, m2.e30),
        MulAdd4(m1.e00, m2.e01, m1.e01, m2.e11, m1.e02, m2.e21, m1.e03, m2.e31),
        MulAdd4(m1.e00, m2.e02, m1.e01, m2.e12, m1.e02, m2.e22, m1.e03, m2.e32),
        MulAdd4(m1.e00, m2.e03, m1.e01, m2.e13, m1.e02, m2.e23, m1.e03, m2.e33),
        MulAdd4(m1.e10, m2.e00, m1.e11, m2.e10, m1.e12, m2.e20, m1.e13, m2.e30),
        MulAdd4(m1.e10, m2.e01, m1.e11, m2.e11, m1.e12, m2.e21, m1.e13, m2.e31),
        MulAdd4(m1.e10, m2.e02, m1.e11, m2.e12, m1.e12, m2.e22, m1.e13, m2.e32),
        MulAdd4(m1.e10, m2.e03, m1.e11, m2.e13, m1.e12, m2.e23, m1.e13, m2.e33),
        MulAdd4(m1.e20, m2.e00, m1.e21, m2.e10, m1.e22, m2.e20, m1.e23, m2.e30),
        MulAdd4(m1.e20, m2.e01, m1.e21, m2.e11, m1.e22, m2.e21, m1.e23, m2.e31),
        MulAdd4(m1.e20, m2.e02, m1.e21, m2.e12, m1.e22, m2.e22, m1.e23, m2.e32),
        MulAdd4(m1.e20, m2.e03, m1.e21, m2.e13, m1.e22, m2.e23, m1.e23, m2.e33),
        MulAdd4(m1.e30, m2.e00, m1.e31, m2.e10, m1.e32, m2.e20, m1.e33, m2.e30),
        MulAdd4(m1.e30, m2.e01, m1.e31, m2.e11, m1.e32, m2.e21, m1.e33, m2.e31),
        MulAdd4(m1.e30, m2.e02, m1.e31, m2.e12, m1.e32, m2.e22, m1.e33, m2.e32),
        MulAdd4(m1.e30, m2.e03, m1.e31, m2.e13, m1.e32, m2.e23, m1.e33, m2.e33))

\* operator*= with the self test dropped: every row is updated in place, and
\* when m is *this (aliased) the later rows read the rows already overwritten
MulAssignNoSelfTest(this, m, aliased) ==
    LET r0 == MulAssignRow0(this, IF aliased THEN this ELSE m)
        r1 == MulAssignRow1(r0, IF aliased THEN r0 ELSE m)
        r2 == MulAssignRow2(r1, IF aliased THEN r1 ELSE m)
    IN  MulAssignRow3(r2, IF aliased THEN r2 ELSE m)

\* operator*= ; aliased is the test this == &m. In the else branch m is another
\* object, so the rows of m read by the later statements are never the updated ones
MulAssign(this, m, aliased) ==
    IF aliased THEN Multiply(m, m)
    ELSE MulAssignRow3(MulAssignRow2(MulAssignRow1(MulAssignRow0(this, m), m), m), m)

(***************************************************************************)
(* Angles. An angle is <<q, h>>: q quarter turns (q * pi/2) plus h times   *)
(* theta, where theta is the angle with sin = 3/5 and cos = 4/5. Sin and   *)
(* Cos are the exact values of std::sin and std::cos at that angle.        *)
(***************************************************************************)
Sin(x) ==
    LET s == IF x[2] = 0 THEN F(0) ELSE <<3, 5>>
        c == IF x[2] = 0 THEN F(1) ELSE <<4, 5>>
        q == x[1] % 4
    IN  IF q = 0 THEN s ELSE IF q = 1 THEN c ELSE IF q = 2 THEN FNeg(s) ELSE FNeg(c)

Cos(x) ==
    LET s == IF x[2] = 0 THEN F(0) ELSE <<3, 5>>
        c == IF x[2] = 0 THEN F(1) ELSE <<4, 5>>
        q == x[1] % 4
    IN  IF q = 0 THEN c ELSE IF q = 1 THEN FNeg(s) ELSE IF q = 2 THEN FNeg(c) ELSE s

(***************************************************************************)
(* Non-member functions                                                    *)
(***************************************************************************)
\* an identity with e33 left at 0
MatrixIdentityNoW ==
    CMatrix4x4(F(1), F(0), F(0), F(0),
               F(0), F(1), F(0), F(0),
               F(0), F(0), F(1), F(0),
               F(0), F(0), F(0), F(0))

MatrixIdentity ==
    CMatrix4x4(F(1), F(0), F(0), F(0),
               F(0), F(1), F(0), F(0),
               F(0), F(0), F(1), F(0),
               F(0), F(0), F(0), F(1))

\* the translation stored down the last column instead of along row 3
MatrixTranslationColumn(t) ==
    CMatrix4x4(F(1), F(0), F(0), t.x,
               F(0), F(1), F(0), t.y,
               F(0), F(0), F(1), t.z,
               F(0), F(0), F(0), F(1))

MatrixTranslation(t) ==
    CMatrix4x4(F(1), F(0), F(0), F(0),
               F(0), F(1), F(0), F(0),
               F(0), F(0), F(1), F(0),
               t.x,  t.y,  t.z,  F(1))

MatrixRotationX(x) ==
    LET sX == Sin(x)
        cX == Cos(x)
    IN  CMatrix4x4(F(1), F(0),     F(0), F(0),
                   F(0), cX,       sX,   F(0),
                   F(0), FNeg(sX), cX,   F(0),
                   F(0), F(0),     F(0), F(1))

\* a Y rotation turning the other way: sin in e02 and -sin in e20
MatrixRotationYFlipped(y) ==
    LET sY == Sin(y)
        cY == Cos(y)
    IN  CMatrix4x4(cY,       F(0), sY,   F(0),
                   F(0),     F(1), F(0), F(0),
                   FNeg(sY), F(0), cY,   F(0),
                   F(0),     F(0), F(0), F(1))

MatrixRotationY(y) ==
    LET sY == Sin(y)
        cY == Cos(y)
    IN  CMatrix4x4(cY,   F(0), FNeg(sY), F(0),
                   F(0), F(1), F(0),     F(0),
                   sY,   F(0), cY,       F(0),
                   F(0), F(0), F(0),     F(1))

\* a Z rotation with sin and cos exchanged
MatrixRotationZCosSin(z) ==
    LET sZ == Sin(z)
        cZ == Cos(z)
    IN  CMatrix4x4(sZ,       cZ,   F(0), F(0),
                   FNeg(cZ), sZ,   F(0), F(0),
                   F(0),     F(0), F(1), F(0),
                   F(0),     F(0), F(0), F(1))

MatrixRotationZ(z) ==
    LET sZ == Sin(z)
        cZ == Cos(z)
    IN  CMatrix4x4(cZ,       sZ,   F(0), F(0),
                   FNeg(sZ), cZ,   F(0), F(0),
                   F(0),     F(0), F(1), F(0),
                   F(0),     F(0), F(0), F(1))

\* MatrixScaling(const CVector3& s)
MatrixScalingV(s) ==
    CMatrix4x4(s.x,  F(0), F(0), F(0),
               F(0), s.y,  F(0), F(0),
               F(0), F(0), s.z,  F(0),
               F(0), F(0), F(0), F(1))

\* MatrixScaling(const float s)
MatrixScaling(s) ==
    CMatrix4x4(s,    F(0), F(0), F(0),
               F(0), s,    F(0), F(0),
               F(0), F(0), s,    F(0),
               F(0), F(0), F(0), F(1))

\* InverseAffine with the translation transformed but not negated
InverseAffineNoNegate(m, zs) ==
    LET det0 == FSub(FMul(m.e11, m.e22), FMul(m.e12, m.e21))
        det1 == FSub(FMul(m.e12, m.e20), FMul(m.e10, m.e22))
        det2 == FSub(FMul(m.e10, m.e21), FMul(m.e11, m.e20))
        det == FAdd(FAdd(FMul(m.e00, det0), FMul(m.e01, det1)), FMul(m.e02, det2))
        invDet == FDiv(F(1), det, zs)
        o00 == FMul(invDet, det0)
        o10 == FMul(invDet, det1)
        o20 == FMul(invDet, det2)
        o01 == FMul(invDet, FSub(FMul(m.e21, m.e02), FMul(m.e22, m.e01)))
        o11 == FMul(invDet, FSub(FMul(m.e22, m.e00), FMul(m.e20, m.e02)))
        o21 == FMul(invDet, FSub(FMul(m.e20, m.e01), FMul(m.e21, m.e00)))
        o02 == FMul(invDet, FSub(FMul(m.e01, m.e12), FMul(m.e02, m.e11)))
        o12 == FMul(invDet, FSub(FMul(m.e02, m.e10), FMul(m.e00, m.e12)))
        o22 == FMul(invDet, FSub(FMul(m.e00, m.e11), FMul(m.e01, m.e10)))
        o30 == FAdd(FAdd(FMul(m.e30, o00), FMul(m.e31, o10)), FMul(m.e32, o20))
        o31 == FAdd(FAdd(FMul(m.e30, o01), FMul(m.e31, o11)), FMul(m.e32, o21))
        o32 == FAdd(FAdd(FMul(m.e30, o02), FMul(m.e31, o12)), FMul(m.e32, o22))
    IN  CMatrix4x4(o00, o01, o02, F(0),
                   o10, o11, o12, F(0),
                   o20, o21, o22, F(0),
                   o30, o31, o32, F(1))

\* InverseAffine with the cofactors stored untransposed
InverseAffineNotTransposed(m, zs) ==
    LET det0 == FSub(FMul(m.e11, m.e22), FMul(m.e12, m.e21))
        det1 == FSub(FMul(m.e12, m.e20), FMul(m.e10, m.e22))
        det2 == FSub(FMul(m.e10, m.e21), FMul(m.e11, m.e20))
        det == FAdd(FAdd(FMul(m.e00, det0), FMul(m.e01, det1)), FMul(m.e02, det2))
        invDet == FDiv(F(1), det, zs)
        o00 == FMul(invDet, det0)
        o01 == FMul(invDet, det1)
        o02 == FMul(invDet, det2)
        o10 == FMul(invDet, FSub(FMul(m.e21, m.e02), FMul(m.e22, m.e01)))
        o11 == FMul(invDet, FSub(FMul(m.e22, m.e00), FMul(m.e20, m.e02)))
        o12 == FMul(invDet, FSub(FMul(m.e20, m.e01), FMul(m.e21, m.e00)))
        o20 == FMul(invDet, FSub(FMul(m.e01, m.e12), FMul(m.e02, m.e11)))
        o21 == FMul(invDet, FSub(FMul(m.e02, m.e10), FMul(m.e00, m.e12)))
        o22 == FMul(invDet, FSub(FMul(m.e00, m.e11), FMul(m.e01, m.e10)))
        o30 == FSub(FSub(FMul(FNeg(m.e30), o00), FMul(m.e31, o10)), FMul(m.e32, o20))
        o31 == FSub(FSub(FMul(FNeg(m.e30), o01), FMul(m.e31, o11)), FMul(m.e32, o21))
        o32 == FSub(FSub(FMul(FNeg(m.e30), o02), FMul(m.e31, o12)), FMul(m.e32, o22))
    IN  CMatrix4x4(o00, o01, o02, F(0),
                   o10, o11, o12, F(0),
                   o20, o21, o22, F(0),
                   o30, o31, o32, F(1))

\* InverseAffine with the right column copied from m instead of filled in
InverseAffineKeepColumn(m, zs) ==
    LET det0 == FSub(FMul(m.e11, m.e22), FMul(m.e12, m.e21))
        det1 == FSub(FMul(m.e12, m.e20), FMul(m.e10, m.e22))
        det2 == FSub(FMul(m.e10, m.e21), FMul(m.e11, m.e20))
        det == FAdd(FAdd(FMul(m.e00, det0), FMul(m.e01, det1)), FMul(m.e02, det2))
        invDet == FDiv(F(1), det, zs)
        o00 == FMul(invDet, det0)
        o10 == FMul(invDet, det1)
        o20 == FMul(invDet, det2)
        o01 == FMul(invDet, FSub(FMul(m.e21, m.e02), FMul(m.e22, m.e01)))
        o11 == FMul(invDet, FSub(FMul(m.e22, m.e00), FMul(m.e20, m.e02)))
        o21 == FMul(invDet, FSub(FMul(m.e20, m.e01), FMul(m.e21, m.e00)))
        o02 == FMul(invDet, FSub(FMul(m.e01, m.e12), FMul(m.e02, m.e11)))
        o12 == FMul(invDet, FSub(FMul(m.e02, m.e10), FMul(m.e00, m.e12)))
        o22 == FMul(invDet, FSub(FMul(m.e00, m.e11), FMul(m.e01, m.e10)))
        o30 == FSub(FSub(FMul(FNeg(m.e30), o00), FMul(m.e31, o10)), FMul(m.e32, o20))
        o31 == FSub(FSub(FMul(FNeg(m.e30), o01), FMul(m.e31, o11)), FMul(m.e32, o21))
        o32 == FSub(FSub(FMul(FNeg(m.e30), o02), FMul(m.e31, o12)), FMul(m.e32, o22))
    IN  CMatrix4x4(o00, o01, o02, m.e03,
                   o10, o11, o12, m.e13,
                   o20, o21, o22, m.e23,
                   o30, o31, o32, m.e33)

\* InverseAffine(m); zs is the sign of det when det is a zero
InverseAffine(m, zs) ==
    LET det0 == FSub(FMul(m.e11, m.e22), FMul(m.e12, m.e21))
        det1 == FSub(FMul(m.e12, m.e20), FMul(m.e10, m.e22))
        det2 == FSub(FMul(m.e10, m.e21), FMul(m.e11, m.e20))
        det == FAdd(FAdd(FMul(m.e00, det0), FMul(m.e01, det1)), FMul(m.e02, det2))
        invDet == FDiv(F(1), det, zs)
        o00 == FMul(invDet, det0)
        o10 == FMul(invDet, det1)
        o20 == FMul(invDet, det2)
        o01 == FMul(invDet, FSub(FMul(m.e21, m.e02), FMul(m.e22, m.e01)))
        o11 == FMul(invDet, FSub(FMul(m.e22, m.e00), FMul(m.e20, m.e02)))
        o21 == FMul(invDet, FSub(FMul(m.e20, m.e01), FMul(m.e21, m.e00)))
        o02 == FMul(invDet, FSub(FMul(m.e01, m.e12), FMul(m.e02, m.e11)))
        o12 == FMul(invDet, FSub(FMul(m.e02, m.e10), FMul(m.e00, m.e12)))
        o22 == FMul(invDet, FSub(FMul(m.e00, m.e11), FMul(m.e01, m.e10)))
        o30 == FSub(FSub(FMul(FNeg(m.e30), o00), FMul(m.e31, o10)), FMul(m.e32, o20))
        o31 == FSub(FSub(FMul(FNeg(m.e30), o01), FMul(m.e31, o11)), FMul(m.e32, o21))
        o32 == FSub(FSub(FMul(FNeg(m.e30), o02), FMul(m.e31, o12)), FMul(m.e32, o22))
    IN  CMatrix4x4(o00, o01, o02, F(0),
                   o10, o11, o12, F(0),
                   o20, o21, o22, F(0),
                   o30, o31, o32, F(1))

\* the determinant of the upper left 3x3 of m, as InverseAffine computes it
Det3(m) ==
    LET det0 == FSub(FMul(m.e11, m.e22), FMul(m.e12, m.e21))
        det1 == FSub(FMul(m.e12, m.e20), FMul(m.e10, m.e22))
        det2 == FSub(FMul(m.e10, m.e21), FMul(m.e11, m.e20))
    IN  FAdd(FAdd(FMul(m.e00, det0), FMul(m.e01, det1)), FMul(m.e02, det2))

(***************************************************************************)
(* Bounds and inputs                                                       *)
(***************************************************************************)
\* calls made in one run
MaxSteps == 2
\* angles run over 0 .. MaxQuarter quarter turns (4 quarter turns = 2 pi)
MaxQuarter == 4
\* uniform scale factors 0 .. MaxScale
MaxScale == 2
\* aggregate-initialised matrices RawMatrix(0) .. RawMatrix(MaxSeed)
MaxSeed == 2
\* an arithmetic call is made only on elements n/d with |n|, d <= MaxMag
MaxMag == 100
\* calls of UpdateScene and RenderScene in one run
MaxFrames == 3

InputVectors == { CVector3(F(0), F(0), F(-5)), CVector3(F(1), F(-2), F(3)) }

\* whole quarter turns, and theta on its own
InputAngles == { <<q, 0>> : q \in 0..MaxQuarter } \cup { <<0, 1>> }

\* a matrix set element by element (the class is an aggregate with public
\* members), here with elements in -2 .. 2: neither affine nor, for some p,
\* invertible
RawMatrix(p) ==
    LET e(r, c) == F((((p + 2) * (4 * r + c + 1) + r * c + p * r) % 5) - 2)
    IN  CMatrix4x4(e(0, 0), e(0, 1), e(0, 2), e(0, 3),
                   e(1, 0), e(1, 1), e(1, 2), e(1, 3),
                   e(2, 0), e(2, 1), e(2, 2), e(2, 3),
                   e(3, 0), e(3, 1), e(3, 2), e(3, 3))

\* the same with the last column of an affine matrix
RawAffine(p) ==
    [RawMatrix(p) EXCEPT !.e03 = F(0), !.e13 = F(0), !.e23 = F(0), !.e33 = F(1)]

Translations == { MatrixTranslation(v) : v \in InputVectors }

Rotations ==
    { MatrixRotationX(x) : x \in InputAngles }
        \cup { MatrixRotationY(y) : y \in InputAngles }
        \cup { MatrixRotationZ(z) : z \in InputAngles }

FactoryMatrices ==
    {MatrixIdentity} \cup Translations \cup Rotations
        \cup { MatrixScaling(F(k)) : k \in 0..MaxScale }
        \cup { MatrixScalingV(v) : v \in InputVectors }

InputMatrices ==
    FactoryMatrices \cup { RawMatrix(p) : p \in 0..MaxSeed }
                    \cup { RawAffine(p) : p \in 0..MaxSeed }

\* a quarter turn, pi/2
QuarterTurn == <<1, 0>>

\* rotations to compose with the translations: two that move every input
\* vector and one, about Z, that leaves (0, 0, -5) where it is
ComposedRotations ==
    { MatrixRotationY(QuarterTurn), MatrixRotationX(<<0, 1>>), MatrixRotationZ(QuarterTurn) }

\* the pairs <<mat, other>> a run starts from
InputPairs ==
    (InputMatrices \X {MatrixIdentity})
        \cup (({MatrixIdentity} \cup { RawMatrix(p) : p \in 0..MaxSeed }
                                \cup { RawAffine(p) : p \in 0..MaxSeed }) \X {RawMatrix(0)})
        \cup (Translations \X ComposedRotations)
        \cup (ComposedRotations \X Translations)

(***************************************************************************)
(* Scene.cpp: geometry data and the globals before InitGeometry            *)
(***************************************************************************)
ColourRGBA(r, g, b, a) == [r |-> r, g |-> g, b |-> b, a |-> a]

SimpleVertex(position, colour) == [position |-> position, colour |-> colour]

gCubeVertices ==
    << SimpleVertex(CVector3(F(-1), F(1),  F(-1)), ColourRGBA(F(1), <<3, 10>>, <<3, 10>>, F(0))),
       SimpleVertex(CVector3(F(1),  F(1),  F(-1)), ColourRGBA(F(1), <<1, 2>>,  <<1, 2>>,  F(0))),
       SimpleVertex(CVector3(F(-1), F(-1), F(-1)), ColourRGBA(F(1), <<3, 5>>,  <<3, 5>>,  F(0))),
       SimpleVertex(CVector3(F(1),  F(-1), F(-1)), ColourRGBA(F(1), <<4, 5>>,  <<4, 5>>,  F(0))),
       SimpleVertex(CVector3(F(1),  F(-1), F(1)),  ColourRGBA(F(1), <<4, 5>>,  <<4, 5>>,  F(0))),
       SimpleVertex(CVector3(F(1),  F(1),  F(1)),  ColourRGBA(F(1), <<4, 5>>,  <<4, 5>>,  F(0))),
       SimpleVertex(CVector3(F(-1), F(1),  F(1)),  ColourRGBA(F(1), <<4, 5>>,  <<4, 5>>,  F(0))),
       SimpleVertex(CVector3(F(-1), F(-1), F(1)),  ColourRGBA(F(1), <<4, 5>>,  <<4, 5>>,  F(0))) >>

gCubeNumVertices == Len(gCubeVertices)

gCubeIndices == <<0, 1, 2, 3, 4, 1, 5, 0, 6, 2, 7, 4, 6, 5>>

gCubeNumIndices == Len(gCubeIndices)

\* sizeof(SimpleVertex): three floats and four floats; sizeof(DWORD)
SizeofSimpleVertex == 28

SizeofDWORD == 4

\* a null ID3D11Buffer* and the buffer CreateBuffer makes from a description
\* and its initial data
NullBuffer == [created |-> FALSE, BindFlags |-> "none", ByteWidth |-> 0, data |-> <<>>]

Buffer(bind, width, data) == [created |-> TRUE, BindFlags |-> bind, ByteWidth |-> width, data |-> data]

\* a CMatrix4x4 with static storage duration and no initialiser
ZeroMatrix ==
    CMatrix4x4(F(0), F(0), F(0), F(0),
               F(0), F(0), F(0), F(0),
               F(0), F(0), F(0), F(0),
               F(0), F(0), F(0), F(0))

\* no DrawIndexed call made yet
NoDraw == [IndexCount |-> 0, StartIndexLocation |-> 0, BaseVertexLocation |-> 0, vertexBuffer |-> NullBuffer, indexBuffer |-> NullBuffer]

\* the scene's globals and statics when the program starts
SceneStart ==
    /\ pc = "CreateVertexBuffer"
    /\ gLastError = ""
    /\ gSimpleVertexBuffer = NullBuffer
    /\ gSimpleIndexBuffer = NullBuffer
    /\ gSimpleVertexLayout = "nullptr"
    /\ shaderSignature = "unset"
    /\ deviceCalls = <<>>
    /\ viewMatrix = ZeroMatrix
    /\ gCubeMatrix = ZeroMatrix
    /\ worldMatrix = ZeroMatrix
    /\ rotationX = <<0, 0>>
    /\ rotationY = <<0, 0>>
    /\ totalFrameTime = F(0)
    /\ frameCount = 0
    /\ drawn = NoDraw
    /\ frames = 0

(***************************************************************************)
(* The client: matrix objects mat, other and out, a vector vec, and hist,  *)
(* the calls made so far, each with the values the objects had before it.  *)
(***************************************************************************)
NoVector == CVector3(F(0), F(0), F(0))

Call(op, r, v) ==
    [op |-> op, iRow |-> r, v |-> v, mat |-> mat, other |-> other, out |-> out, vec |-> vec]

SmallFloat(a) == Abs(a[1]) <= MaxMag /\ a[2] <= MaxMag

Small(m4) == \A i \in 1..16 : SmallFloat(m4[Elts[i]])

CanCall == Len(hist) < MaxSteps

Init ==
    /\ \E pair \in InputPairs : mat = pair[1] /\ other = pair[2]
    /\ out = MatrixIdentity
    /\ vec = NoVector
    /\ hist = <<>>
    /\ SceneStart

\* out = mat * other;
CallMultiply ==
    /\ CanCall /\ Small(mat) /\ Small(other)
    /\ out' = Multiply(mat, other)
    /\ hist' = Append(hist, Call("Multiply", 0, NoVector))
    /\ UNCHANGED <<mat, other, vec, sceneVars>>

\* out = other * mat;
CallMultiplyRev ==
    /\ CanCall /\ Small(mat) /\ Small(other)
    /\ out' = Multiply(other, mat)
    /\ hist' = Append(hist, Call("MultiplyRev", 0, NoVector))
    /\ UNCHANGED <<mat, other, vec, sceneVars>>

\* mat *= other;
CallMulAssign ==
    /\ CanCall /\ Small(mat) /\ Small(other)
    /\ mat' = MulAssign(mat, other, FALSE)
    /\ hist' = Append(hist, Call("MulAssign", 0, NoVector))
    /\ UNCHANGED <<other, out, vec, sceneVars>>

\* mat *= mat;
CallMulAssignSelf ==
    /\ CanCall /\ Small(mat)
    /\ mat' = MulAssign(mat, mat, TRUE)
    /\ hist' = Append(hist, Call("MulAssignSelf", 0, NoVector))
    /\ UNCHANGED <<other, out, vec, sceneVars>>

\* mat.SetRow(r, v); r in range 0-3 as the member's comment requires
CallSetRow ==
    /\ CanCall
    /\ \E r \in 0..3, v \in InputVectors :
        /\ mat' = SetRow(mat, r, v)
        /\ hist' = Append(hist, Call("SetRow", r, v))
    /\ UNCHANGED <<other, out, vec, sceneVars>>

\* vec = mat.GetRow(r);
CallGetRow ==
    /\ CanCall
    /\ \E r \in 0..3 :
        /\ vec' = GetRow(mat, r)
        /\ hist' = Append(hist, Call("GetRow", r, NoVector))
    /\ UNCHANGED <<mat, other, out, sceneVars>>

\* other = InverseAffine(mat);
CallInverse ==
    /\ CanCall /\ Small(mat)
    /\ \E zs \in {1, -1} : other' = InverseAffine(mat, zs)
    /\ hist' = Append(hist, Call("Inverse", 0, NoVector))
    /\ UNCHANGED <<mat, out, vec, sceneVars>>

\* out = InverseAffine(other);
CallInverseBack ==
    /\ CanCall /\ Small(other)
    /\ \E zs \in {1, -1} : out' = InverseAffine(other, zs)
    /\ hist' = Append(hist, Call("InverseBack", 0, NoVector))
    /\ UNCHANGED <<mat, other, vec, sceneVars>>

Next ==
    \/ CallMultiply
    \/ CallMultiplyRev
    \/ CallMulAssign
    \/ CallMulAssignSelf
    \/ CallSetRow
    \/ CallGetRow
    \/ CallInverse
    \/ CallInverseBack

Spec == Init /\ [][Next]_vars

(***************************************************************************)
(* The same client starting from matrices the factory functions return.    *)
(***************************************************************************)
\* the pairs <<mat, other>> of factory results a run starts from
FactoryPairs ==
    (FactoryMatrices \X {MatrixIdentity})
        \cup (Translations \X ComposedRotations)
        \cup (ComposedRotations \X Translations)
        \cup ({MatrixScaling(F(0))} \X Translations)

AffineInit ==
    /\ \E pair \in FactoryPairs : mat = pair[1] /\ other = pair[2]
    /\ out = MatrixIdentity
    /\ vec = NoVector
    /\ hist = <<>>
    /\ SceneStart

AffineSpec == AffineInit /\ [][Next]_vars

(***************************************************************************)
(* The client making matrices: mat, other and out are objects with static  *)
(* storage, and each call assigns what a factory function returns.         *)
(***************************************************************************)
FactoryCall(op, angle) ==
    [op |-> op, angle |-> angle, mat |-> mat, other |-> other, out |-> out, vec |-> vec]

FactoryInit ==
    /\ mat = ZeroMatrix
    /\ other = ZeroMatrix
    /\ out = ZeroMatrix
    /\ vec = NoVector
    /\ hist = <<>>
    /\ SceneStart

\* other = MatrixIdentity();
CallMatrixIdentity ==
    /\ CanCall
    /\ other' = MatrixIdentity
    /\ hist' = Append(hist, FactoryCall("MatrixIdentity", <<0, 0>>))
    /\ UNCHANGED <<mat, out, vec, sceneVars>>

\* mat = MatrixRotationX(a);
CallMatrixRotationX ==
    /\ CanCall
    /\ \E a \in InputAngles :
        /\ mat' = MatrixRotationX(a)
        /\ hist' = Append(hist, FactoryCall("MatrixRotationX", a))
    /\ UNCHANGED <<other, out, vec, sceneVars>>

\* mat = MatrixRotationY(a);
CallMatrixRotationY ==
    /\ CanCall
    /\ \E a \in InputAngles :
        /\ mat' = MatrixRotationY(a)
        /\ hist' = Append(hist, FactoryCall("MatrixRotationY", a))
    /\ UNCHANGED <<other, out, vec, sceneVars>>

\* mat = MatrixRotationZ(a);
CallMatrixRotationZ ==
    /\ CanCall
    /\ \E a \in InputAngles :
        /\ mat' = MatrixRotationZ(a)
        /\ hist' = Append(hist, FactoryCall("MatrixRotationZ", a))
    /\ UNCHANGED <<other, out, vec, sceneVars>>

FactoryNext ==
    \/ CallMatrixIdentity
    \/ CallMatrixRotationX
    \/ CallMatrixRotationY
    \/ CallMatrixRotationZ

FactorySpec == FactoryInit /\ [][FactoryNext]_vars

(***************************************************************************)
(* Scene.cpp: InitGeometry, one action per device call it makes, then      *)
(* UpdateScene and RenderScene                                             *)
(***************************************************************************)
\* a call InitGeometry made and whether it succeeded
DeviceCall(call, ok) == [call |-> call, ok |-> ok]

\* hr = gD3DDevice->CreateBuffer(&bufferDesc, &initData, &gSimpleVertexBuffer);
CreateVertexBuffer ==
    /\ pc = "CreateVertexBuffer"
    /\ \E ok \in BOOLEAN :
        /\ deviceCalls' = Append(deviceCalls, DeviceCall("CreateVertexBuffer", ok))
        /\ IF ok
           THEN /\ gSimpleVertexBuffer' = Buffer("D3D11_BIND_VERTEX_BUFFER", gCubeNumVertices * SizeofSimpleVertex, gCubeVertices)
                /\ pc' = "CreateIndexBuffer"
                /\ UNCHANGED gLastError
           ELSE /\ gLastError' = "Error creating vertex buffer"
                /\ pc' = "ReturnFalse"
                /\ UNCHANGED gSimpleVertexBuffer
    /\ UNCHANGED <<gSimpleIndexBuffer, gSimpleVertexLayout, shaderSignature, frameVars, matrixVars>>

\* hr = gD3DDevice->CreateBuffer(&bufferDesc, &initData, &gSimpleIndexBuffer);
CreateIndexBuffer ==
    /\ pc = "CreateIndexBuffer"
    /\ \E ok \in BOOLEAN :
        /\ deviceCalls' = Append(deviceCalls, DeviceCall("CreateIndexBuffer", ok))
        /\ IF ok
           THEN /\ gSimpleIndexBuffer' = Buffer("D3D11_BIND_INDEX_BUFFER", gCubeNumIndices * SizeofDWORD, gCubeIndices)
                /\ pc' = "CreateSignature"
                /\ UNCHANGED gLastError
           ELSE /\ gLastError' = "Error creating index buffer"
                /\ pc' = "ReturnFalse"
                /\ UNCHANGED gSimpleIndexBuffer
    /\ UNCHANGED <<gSimpleVertexBuffer, gSimpleVertexLayout, shaderSignature, frameVars, matrixVars>>

\* auto shaderSignature = CreateSignatureForVertexLayout(...): a blob, or
\* nullptr when the signature could not be made
CreateSignature ==
    /\ pc = "CreateSignature"
    /\ \E sig \in {"blob", "nullptr"} :
        /\ shaderSignature' = sig
        /\ deviceCalls' = Append(deviceCalls, DeviceCall("CreateSignatureForVertexLayout", sig # "nullptr"))
    /\ pc' = "CreateInputLayout"
    /\ UNCHANGED <<gLastError, gSimpleVertexBuffer, gSimpleIndexBuffer, gSimpleVertexLayout, frameVars, matrixVars>>

\* hr = gD3DDevice->CreateInputLayout(..., shaderSignature->GetBufferPointer(),
\* shaderSignature->GetBufferSize(), &gSimpleVertexLayout);
\* if (shaderSignature) shaderSignature->Release(); if (FAILED(hr)) ...
\* The two member calls are made before the test for nullptr: on a null
\* shaderSignature they are undefined, and the program either stops there or
\* goes on to CreateInputLayout with whatever they gave.
CreateInputLayout ==
    /\ pc = "CreateInputLayout"
    /\ LET used == Append(deviceCalls, DeviceCall("shaderSignature->GetBufferPointer", shaderSignature # "nullptr"))
       IN  \/ /\ shaderSignature = "nullptr"
              /\ deviceCalls' = used
              /\ pc' = "Crashed"
              /\ UNCHANGED <<gLastError, gSimpleVertexLayout, shaderSignature>>
           \/ \E ok \in BOOLEAN :
              /\ deviceCalls' = Append(used, DeviceCall("CreateInputLayout", ok))
              /\ shaderSignature' = IF shaderSignature = "nullptr" THEN "nullptr" ELSE "released"
              /\ IF ok
                 THEN /\ gSimpleVertexLayout' = "layout"
                      /\ pc' = "ReturnTrue"
                      /\ UNCHANGED gLastError
                 ELSE /\ gLastError' = "Error creating input layout"
                      /\ pc' = "ReturnFalse"
                      /\ UNCHANGED gSimpleVertexLayout
    /\ UNCHANGED <<gSimpleVertexBuffer, gSimpleIndexBuffer, frameVars, matrixVars>>

\* the frame loop runs once InitGeometry has returned true
SceneReady == pc = "ReturnTrue"

\* frame times passed to UpdateScene: none, and three quarters of a second
FrameTimes == { F(0), <<3, 4>> }

\* ToRadians(120) * frameTime as an angle: 120 degrees are 4/3 of a quarter
\* turn, and the frame times make it a whole number of quarter turns
RotationStep(frameTime) == <<(4 * frameTime[1]) \div (3 * frameTime[2]), 0>>

AngleAdd(x, d) == <<x[1] + d[1], x[2] + d[2]>>

AngleSub(x, d) == <<x[1] - d[1], x[2] - d[2]>>

\* a > b, for finite a and b
FGreater(a, b) == a[1] * b[2] > b[1] * a[2]

\* const float fpsUpdateTime = 0.5f;
fpsUpdateTime == <<1, 2>>

\* the camera's position, CVector3(0, 0, -5.0f)
CameraPosition == CVector3(F(0), F(0), F(-5))

\* DrawIndexed(36, 0, 0)
DrawIndexCount == 36

\* void UpdateScene(float frameTime), with the keys held during the frame
UpdateScene ==
    /\ SceneReady
    /\ frames < MaxFrames
    /\ frames' = frames + 1
    /\ \E zs \in {1, -1} : viewMatrix' = InverseAffine(MatrixTranslation(CameraPosition), zs)
    /\ \E frameTime \in FrameTimes, Key_W \in BOOLEAN, Key_S \in BOOLEAN, Key_A \in BOOLEAN, Key_D \in BOOLEAN :
        LET step == RotationStep(frameTime)
            x1 == IF Key_W THEN AngleAdd(rotationX, step) ELSE rotationX
            x2 == IF Key_S THEN AngleSub(x1, step) ELSE x1
            y1 == IF Key_A THEN AngleAdd(rotationY, step) ELSE rotationY
            y2 == IF Key_D THEN AngleSub(y1, step) ELSE y1
            total == FAdd(totalFrameTime, frameTime)
        IN  /\ rotationX' = x2
            /\ rotationY' = y2
            /\ gCubeMatrix' = Multiply(MatrixRotationX(x2), MatrixRotationY(y2))
            /\ IF FGreater(total, fpsUpdateTime)
               THEN totalFrameTime' = F(0) /\ frameCount' = 0
               ELSE totalFrameTime' = total /\ frameCount' = frameCount + 1
    /\ UNCHANGED <<worldMatrix, drawn, geometryVars, matrixVars>>

\* void RenderScene(): the buffers selected, the world matrix sent, and the
\* DrawIndexed call
RenderScene ==
    /\ SceneReady
    /\ frames < MaxFrames
    /\ frames' = frames + 1
    /\ worldMatrix' = gCubeMatrix
    /\ drawn' = [IndexCount |-> DrawIndexCount, StartIndexLocation |-> 0, BaseVertexLocation |-> 0, vertexBuffer |-> gSimpleVertexBuffer, indexBuffer |-> gSimpleIndexBuffer]
    /\ UNCHANGED <<viewMatrix, gCubeMatrix, rotationX, rotationY, totalFrameTime, frameCount, geometryVars, matrixVars>>

SceneInit ==
    /\ mat = ZeroMatrix
    /\ other = ZeroMatrix
    /\ out = ZeroMatrix
    /\ vec = NoVector
    /\ hist = <<>>
    /\ SceneStart

SceneNext ==
    \/ CreateVertexBuffer
    \/ CreateIndexBuffer
    \/ CreateSignature
    \/ CreateInputLayout
    \/ UpdateScene
    \/ RenderScene

SceneSpec == SceneInit /\ [][SceneNext]_vars

(***************************************************************************)
(* Vocabulary of the properties                                            *)
(***************************************************************************)
\* element (r, c) of m4, r and c in 0..3
At(m4, r, c) == m4[Elts[4 * r + c + 1]]

AllFinite(m4) == \A i \in 1..16 : IsFinite(m4[Elts[i]])

\* last column (e03, e13, e23, e33) = (0, 0, 0, 1)
IsAffine(m4) == m4.e03 = F(0) /\ m4.e13 = F(0) /\ m4.e23 = F(0) /\ m4.e33 = F(1)

\* the last call and the one before it
Last == hist[Len(hist)]

Prev == hist[Len(hist) - 1]

Called(op) == Len(hist) > 0 /\ Last.op = op

CalledAfter(op1, op2) == Len(hist) > 1 /\ Prev.op = op1 /\ Last.op = op2

\* sum over j in 0..k of a[r][j] * b[j][c]
RECURSIVE SumTo(_, _, _, _, _)
SumTo(a, b, r, c, k) ==
    IF k = 0 THEN FMul(At(a, r, 0), At(b, 0, c))
    ELSE FAdd(SumTo(a, b, r, c, k - 1), FMul(At(a, r, k), At(b, k, c)))

IsReferenceProduct(p, a, b) == \A r \in 0..3, c \in 0..3 : At(p, r, c) = SumTo(a, b, r, c, 3)

(***************************************************************************)
(* C1: after out = m1 * m2, every element (r, c) of out is the sum over k  *)
(* in 0..3 of m1[r][k] * m2[k][c], whatever the operands (affine or not),  *)
(* and both operands still hold the values they had before the call.       *)
(***************************************************************************)
C1_MultiplyIsReferenceSum ==
    /\ Called("Multiply") =>
        /\ IsReferenceProduct(out, Last.mat, Last.other)
        /\ mat = Last.mat /\ other = Last.other
    /\ Called("MultiplyRev") =>
        /\ IsReferenceProduct(out, Last.other, Last.mat)
        /\ mat = Last.mat /\ other = Last.other

\* a product of two non-affine matrices has been computed
C1_Witness ==
    /\ Called("Multiply")
    /\ ~IsAffine(Last.mat) /\ ~IsAffine(Last.other)
    /\ AllFinite(out) /\ ~IsAffine(out) /\ out # Last.mat /\ out # Last.other

(***************************************************************************)
(* C2: after m *= other with other a distinct object, m is (old m) * other *)
(* and other is unchanged; after m *= m, m is the binary product of two    *)
(* copies of its old value.                                                *)
(***************************************************************************)
C2_MulAssignIsProduct ==
    /\ Called("MulAssign") =>
        /\ mat = Multiply(Last.mat, Last.other)
        /\ other = Last.other
    /\ Called("MulAssignSelf") => mat = Multiply(Last.mat, Last.mat)

\* m *= m has run on a matrix for which updating the rows in place, reading
\* the rows already overwritten, would have given another result
C2_Witness ==
    /\ Called("MulAssignSelf")
    /\ AllFinite(mat)
    /\ mat # MulAssignNoSelfTest(Last.mat, Last.mat, TRUE)
    /\ mat # Last.mat

(***************************************************************************)
(* C3: for an affine M of finite floats whose upper left 3x3 has a         *)
(* non-zero determinant, M * InverseAffine(M) is the identity; so it is    *)
(* for M = MatrixTranslation(v), the camera matrix of UpdateScene.         *)
(***************************************************************************)
Invertible(m4) == IsAffine(m4) /\ AllFinite(m4) /\ Det3(m4) # F(0)

C3_TimesInverseIsIdentity ==
    CalledAfter("Inverse", "Multiply") =>
        /\ Invertible(Prev.mat) => out = MatrixIdentity
        /\ Prev.mat \in Translations => out = MatrixIdentity

\* other = InverseAffine(M); out = M * other; for an M that scales or shears
\* and translates
C3_Witness ==
    /\ CalledAfter("Inverse", "Multiply")
    /\ Invertible(Prev.mat)
    /\ Det3(Prev.mat) # F(1)
    /\ GetRow(Prev.mat, 3) # NoVector
    /\ Last.other # Prev.mat
    /\ out = MatrixIdentity

(***************************************************************************)
(* C4: for an affine M of finite floats whose upper left 3x3 has a         *)
(* non-zero determinant, InverseAffine(InverseAffine(M)) is M, element for *)
(* element.                                                                *)
(***************************************************************************)
C4_InverseIsInvolution ==
    (CalledAfter("Inverse", "InverseBack") /\ Invertible(Prev.mat)) => out = Prev.mat

\* other = InverseAffine(M); out = InverseAffine(other); for an M that scales
\* or shears and translates
C4_Witness ==
    /\ CalledAfter("Inverse", "InverseBack")
    /\ Invertible(Prev.mat)
    /\ Det3(Prev.mat) # F(1)
    /\ GetRow(Prev.mat, 3) # NoVector
    /\ Last.other # Prev.mat
    /\ out = Prev.mat

(***************************************************************************)
(* C5: for a matrix M of finite floats, affine or not, Identity * M is M   *)
(* and M * Identity is M, element for element.                             *)
(***************************************************************************)
C5_IdentityIsNeutral ==
    /\ Called("Multiply") =>
        /\ (Last.mat = MatrixIdentity /\ AllFinite(Last.other)) => out = Last.other
        /\ (Last.other = MatrixIdentity /\ AllFinite(Last.mat)) => out = Last.mat
    /\ Called("MultiplyRev") =>
        /\ (Last.other = MatrixIdentity /\ AllFinite(Last.mat)) => out = Last.mat
        /\ (Last.mat = MatrixIdentity /\ AllFinite(Last.other)) => out = Last.other

\* Identity * M has been computed for a non-affine M
C5_Witness ==
    /\ Called("MultiplyRev")
    /\ Last.other = MatrixIdentity
    /\ ~IsAffine(Last.mat) /\ AllFinite(Last.mat)
    /\ out = Last.mat

(***************************************************************************)
(* C6: SetRow(r, v), r in 0..3, writes v.x, v.y, v.z to e_r0, e_r1, e_r2   *)
(* and leaves e_r3 and the twelve elements of the other rows as they were; *)
(* a GetRow(r) right after it returns v; GetRow changes no matrix.         *)
(***************************************************************************)
RowNames ==
    << <<"e00", "e01", "e02", "e03">>, <<"e10", "e11", "e12", "e13">>,
       <<"e20", "e21", "e22", "e23">>, <<"e30", "e31", "e32", "e33">> >>

C6_SetRowFrame ==
    /\ Called("SetRow") =>
        /\ mat[RowNames[Last.iRow + 1][1]] = Last.v.x
        /\ mat[RowNames[Last.iRow + 1][2]] = Last.v.y
        /\ mat[RowNames[Last.iRow + 1][3]] = Last.v.z
        /\ mat[RowNames[Last.iRow + 1][4]] = Last.mat[RowNames[Last.iRow + 1][4]]
        /\ \A r \in (0..3) \ {Last.iRow} : \A c \in 1..4 :
              mat[RowNames[r + 1][c]] = Last.mat[RowNames[r + 1][c]]
    /\ (CalledAfter("SetRow", "GetRow") /\ Prev.iRow = Last.iRow) => vec = Prev.v
    /\ Called("GetRow") => (mat = Last.mat /\ other = Last.other /\ out = Last.out)

\* SetRow(1, v) then GetRow(1) on a non-affine matrix whose row 1 was not v
C6_Witness ==
    /\ CalledAfter("SetRow", "GetRow")
    /\ Prev.iRow = 1 /\ Last.iRow = 1
    /\ Prev.mat.e13 # F(0)
    /\ GetRow(Prev.mat, 1) # Prev.v
    /\ vec = Prev.v
    /\ mat.e13 = Prev.mat.e13

(***************************************************************************)
(* C7: when the determinant of the upper left 3x3 of its argument is zero, *)
(* InverseAffine still returns a matrix, and the nine elements of its 3x3  *)
(* and the three of its translation row are all infinite or NaN.           *)
(***************************************************************************)
C7_SingularGivesNonFinite ==
    (Called("Inverse") /\ Det3(Last.mat) = F(0)) =>
        \A r \in 0..3 : \A c \in 0..2 : ~IsFinite(At(other, r, c))

\* a singular matrix has been inverted, giving infinities and NaNs
C7_Witness ==
    /\ Called("Inverse")
    /\ Det3(Last.mat) = F(0)
    /\ \E r \in 0..3, c \in 0..2 : At(other, r, c) \in {PInf, NInf}
    /\ \E r \in 0..3, c \in 0..2 : At(other, r, c) = NaN

(***************************************************************************)
(* C8: whatever its argument, InverseAffine returns a matrix with last     *)
(* column (0, 0, 0, 1), and the result is the one it returns for the same  *)
(* argument with any other last column.                                    *)
(***************************************************************************)
OtherColumns ==
    { <<F(0), F(0), F(0), F(1)>>, <<F(1), F(2), F(3), F(4)>>, <<F(-1), F(0), F(2), F(0)>> }

WithLastColumn(m4, col) ==
    [m4 EXCEPT !.e03 = col[1], !.e13 = col[2], !.e23 = col[3], !.e33 = col[4]]

C8_InverseIgnoresLastColumn ==
    Called("Inverse") =>
        /\ IsAffine(other)
        /\ \A col \in OtherColumns :
              \E zs \in {1, -1} : InverseAffine(WithLastColumn(Last.mat, col), zs) = other

\* a non-affine matrix has been inverted
C8_Witness ==
    /\ Called("Inverse")
    /\ ~IsAffine(Last.mat)
    /\ AllFinite(other) /\ IsAffine(other) /\ other # MatrixIdentity

(***************************************************************************)
(* C9: for affine A and B, row 3 of A * B is A's translation times B's 3x3 *)
(* plus B's translation. So with a translation T(v) and a rotation R, row  *)
(* 3 of R * T(v) is v, row 3 of T(v) * R is v rotated by R, and the two    *)
(* products differ exactly when R moves v.                                 *)
(***************************************************************************)
\* p * (3x3 of b) + (translation of b)
TransformPoint(p, b) ==
    CVector3(FAdd(FAdd(FAdd(FMul(p.x, b.e00), FMul(p.y, b.e10)), FMul(p.z, b.e20)), b.e30),
             FAdd(FAdd(FAdd(FMul(p.x, b.e01), FMul(p.y, b.e11)), FMul(p.z, b.e21)), b.e31),
             FAdd(FAdd(FAdd(FMul(p.x, b.e02), FMul(p.y, b.e12)), FMul(p.z, b.e22)), b.e32))

\* p * (3x3 of b)
RotatePoint(p, b) ==
    CVector3(FAdd(FAdd(FMul(p.x, b.e00), FMul(p.y, b.e10)), FMul(p.z, b.e20)),
             FAdd(FAdd(FMul(p.x, b.e01), FMul(p.y, b.e11)), FMul(p.z, b.e21)),
             FAdd(FAdd(FMul(p.x, b.e02), FMul(p.y, b.e12)), FMul(p.z, b.e22)))

\* tr is T * R and rt is R * T, for the translation T and the rotation R
OrderMatters(tr, rt, T, R) ==
    /\ GetRow(rt, 3) = GetRow(T, 3)
    /\ GetRow(tr, 3) = RotatePoint(GetRow(T, 3), R)
    /\ (tr # rt) <=> (RotatePoint(GetRow(T, 3), R) # GetRow(T, 3))

C9_LeftOperandFirst ==
    /\ (Called("Multiply") /\ IsAffine(Last.mat) /\ IsAffine(Last.other)) =>
        GetRow(out, 3) = TransformPoint(GetRow(Last.mat, 3), Last.other)
    /\ (Called("MultiplyRev") /\ IsAffine(Last.mat) /\ IsAffine(Last.other)) =>
        GetRow(out, 3) = TransformPoint(GetRow(Last.other, 3), Last.mat)
    /\ (CalledAfter("Multiply", "MultiplyRev") /\ mat \in Translations /\ other \in Rotations) =>
        OrderMatters(Last.out, out, mat, other)
    /\ (CalledAfter("Multiply", "MultiplyRev") /\ mat \in Rotations /\ other \in Translations) =>
        OrderMatters(out, Last.out, other, mat)

\* T(v) * R and R * T(v) have both been computed for an R that moves v, and differ
C9_Witness ==
    /\ CalledAfter("Multiply", "MultiplyRev")
    /\ mat \in Translations /\ other \in Rotations
    /\ RotatePoint(GetRow(mat, 3), other) # GetRow(mat, 3)
    /\ GetRow(out, 3) = GetRow(mat, 3)
    /\ GetRow(Last.out, 3) # GetRow(mat, 3)
    /\ Last.out # out

(***************************************************************************)
(* C10: row 0 of MatrixRotationY(a) is (cos a, 0, -sin a), so that         *)
(* MatrixRotationY(pi/2) maps (1, 0, 0) to (0, 0, -1); MatrixRotationX has *)
(* sin in e12 and -sin in e21, MatrixRotationZ sin in e01 and -sin in e10. *)
(***************************************************************************)
C10_RotationSigns ==
    Called("GetRow") =>
        \A a \in InputAngles :
            /\ (Last.mat = MatrixRotationY(a) /\ Last.iRow = 0) =>
                  vec = CVector3(Cos(a), F(0), FNeg(Sin(a)))
            /\ (Last.mat = MatrixRotationY(a) /\ Last.iRow = 0 /\ a = QuarterTurn) =>
                  vec = CVector3(F(0), F(0), F(-1))
            /\ (Last.mat = MatrixRotationX(a) /\ Last.iRow = 1) =>
                  vec = CVector3(F(0), Cos(a), Sin(a))
            /\ (Last.mat = MatrixRotationX(a) /\ Last.iRow = 2) =>
                  vec = CVector3(F(0), FNeg(Sin(a)), Cos(a))
            /\ (Last.mat = MatrixRotationZ(a) /\ Last.iRow = 0) =>
                  vec = CVector3(Cos(a), Sin(a), F(0))
            /\ (Last.mat = MatrixRotationZ(a) /\ Last.iRow = 1) =>
                  vec = CVector3(FNeg(Sin(a)), Cos(a), F(0))

\* row 0 of MatrixRotationY(pi/2) has been read and is (0, 0, -1)
C10_Witness ==
    /\ Called("GetRow")
    /\ Last.iRow = 0
    /\ Last.mat = MatrixRotationY(QuarterTurn)
    /\ vec = CVector3(F(0), F(0), F(-1))

(***************************************************************************)
(* C11: MatrixRotationX(0) equals MatrixIdentity() element for element,    *)
(* and so does MatrixRotationX of a full turn (2 pi) with sin = 0 and      *)
(* cos = 1 taken exactly; the same for MatrixRotationY and                 *)
(* MatrixRotationZ.                                                        *)
(***************************************************************************)
NoTurn == <<0, 0>>

\* 2 pi: four quarter turns
FullTurn == <<4, 0>>

RotationCalls == {"MatrixRotationX", "MatrixRotationY", "MatrixRotationZ"}

C11_NoTurnIsIdentity ==
    \A op \in RotationCalls :
        (Called(op) /\ Last.angle \in {NoTurn, FullTurn}) =>
            \A r \in 0..3, c \in 0..3 : At(mat, r, c) = At(MatrixIdentity, r, c)

\* mat, which held a quarter turn about Z, now holds MatrixRotationZ(2 pi)
\* and equals MatrixIdentity()
C11_Witness ==
    /\ Called("MatrixRotationZ")
    /\ Last.angle = FullTurn
    /\ Last.mat = MatrixRotationZ(QuarterTurn)
    /\ Last.mat # mat
    /\ mat = MatrixIdentity

(***************************************************************************)
(* C12: InitGeometry returns true only when the vertex buffer, the index   *)
(* buffer and the input layout have all been created; when a step fails    *)
(* (vertex buffer, index buffer, signature or input layout creation) it    *)
(* returns false with gLastError set to that step's message, makes no      *)
(* later creation step, and never uses a null signature object.            *)
(***************************************************************************)
CreationSteps ==
    {"CreateVertexBuffer", "CreateIndexBuffer", "CreateSignatureForVertexLayout", "CreateInputLayout"}

\* the message InitGeometry has for a failed step; it has none of its own for
\* the signature
StepMessages ==
    [CreateVertexBuffer |-> {"Error creating vertex buffer"},
     CreateIndexBuffer |-> {"Error creating index buffer"},
     CreateSignatureForVertexLayout |-> {"Error creating vertex buffer", "Error creating index buffer", "Error creating input layout"},
     CreateInputLayout |-> {"Error creating input layout"}]

Returned == pc \in {"ReturnTrue", "ReturnFalse"}

C12_InitGeometryReportsFailure ==
    /\ pc = "ReturnTrue" =>
        /\ gSimpleVertexBuffer.created /\ gSimpleIndexBuffer.created /\ gSimpleVertexLayout # "nullptr"
        /\ \A i \in 1..Len(deviceCalls) : deviceCalls[i].ok
    /\ \A i \in 1..Len(deviceCalls) :
        (deviceCalls[i].call \in CreationSteps /\ ~deviceCalls[i].ok) =>
            /\ \A j \in (i + 1)..Len(deviceCalls) : deviceCalls[j].call \notin CreationSteps
            /\ pc # "Crashed"
            /\ Returned => (pc = "ReturnFalse" /\ gLastError \in StepMessages[deviceCalls[i].call])
    /\ \A i \in 1..Len(deviceCalls) :
        deviceCalls[i].call = "shaderSignature->GetBufferPointer" => deviceCalls[i].ok

(***************************************************************************)
(* C13: every matrix reached from the factories (MatrixIdentity,           *)
(* MatrixTranslation, MatrixRotationX/Y/Z, MatrixScaling) by binary        *)
(* multiply, in-place *= (aliased or not), SetRow with r in 0..3 and       *)
(* InverseAffine has last column (e03, e13, e23, e33) = (0, 0, 0, 1).      *)
(***************************************************************************)
C13_AffineClosure == IsAffine(mat) /\ IsAffine(other) /\ IsAffine(out)

(***************************************************************************)
(* C13 as amended: every such matrix whose sixteen elements are all finite *)
(* has last column (0, 0, 0, 1); SetRow and InverseAffine keep or set that *)
(* column whatever the elements, and so does a product of affine operands  *)
(* whose left operand is finite.                                           *)
(***************************************************************************)
C13_FiniteMatricesAreAffine ==
    /\ \A m4 \in {mat, other, out} : AllFinite(m4) => IsAffine(m4)
    /\ (Called("SetRow") /\ IsAffine(Last.mat)) => IsAffine(mat)
    /\ Called("Inverse") => IsAffine(other)
    /\ Called("InverseBack") => IsAffine(out)
    /\ (Called("Multiply") /\ AllFinite(mat) /\ IsAffine(mat) /\ IsAffine(other)) => IsAffine(out)
    /\ (Called("MultiplyRev") /\ AllFinite(other) /\ IsAffine(mat) /\ IsAffine(other)) => IsAffine(out)
    /\ (Called("MulAssign") /\ AllFinite(Last.mat) /\ IsAffine(Last.mat) /\ IsAffine(other)) => IsAffine(mat)
    /\ (Called("MulAssignSelf") /\ AllFinite(Last.mat) /\ IsAffine(Last.mat)) => IsAffine(mat)

\* a translation had its row 0 set, was inverted, and the inverse times the
\* matrix is a finite matrix with last column (0, 0, 0, 1)
C13_Witness ==
    /\ Len(hist) = MaxSteps
    /\ hist[1].op = "SetRow"
    /\ hist[1].mat \in Translations
    /\ hist[2].op = "Inverse"
    /\ AllFinite(other)
    /\ other # MatrixIdentity
    /\ IsAffine(mat) /\ IsAffine(other)

\* the scene's part of C13, a property of SceneSpec: once UpdateScene has
\* run, the view matrix and the cube's world matrix, made from finite
\* angles, are finite and have last column (0, 0, 0, 1)
SceneMatricesAreAffine ==
    (SceneReady /\ viewMatrix # ZeroMatrix) =>
        /\ AllFinite(viewMatrix) /\ IsAffine(viewMatrix)
        /\ AllFinite(gCubeMatrix) /\ IsAffine(gCubeMatrix)
        /\ gCubeMatrix = Multiply(MatrixRotationX(rotationX), MatrixRotationY(rotationY))

(***************************************************************************)
(* C14: on every frame each index position the DrawIndexed call of         *)
(* RenderScene reads (count positions from the start position) lies inside *)
(* the index buffer InitGeometry uploaded, that is the drawn count is at   *)
(* most gCubeNumIndices, and every index stored there refers to one of the *)
(* gCubeNumVertices vertices.                                              *)
(***************************************************************************)
C14_DrawnIndicesInBuffer ==
    drawn.IndexCount > 0 =>
        /\ drawn.indexBuffer.created
        /\ drawn.indexBuffer.data = gCubeIndices
        /\ \A pos \in drawn.StartIndexLocation..(drawn.StartIndexLocation + drawn.IndexCount - 1) :
            /\ (pos + 1) * SizeofDWORD <= drawn.indexBuffer.ByteWidth
            /\ pos < gCubeNumIndices
        /\ drawn.IndexCount <= gCubeNumIndices
        /\ \A i \in 1..gCubeNumIndices :
            drawn.indexBuffer.data[i] + drawn.BaseVertexLocation \in 0..(gCubeNumVertices - 1)

====
